---------------------------- MODULE Spec2Model ----------------------------
(***************************************************************************)
(* Baseline / optimized kernel pairs of bench/.optim-work: substring       *)
(* search, sort, prime counting, Fibonacci, array sum, matrix multiply.    *)
(* Every kernel has a record variable of its own and a specification of    *)
(* its own; a kernel that a specification does not run stays Idle.         *)
(***************************************************************************)
EXTENDS Integers, Sequences, FiniteSets, Bags, TLC

VARIABLES search, sort, prime, fib, asum, mat

vars == <<search, sort, prime, fib, asum, mat>>

Idle == [pc |-> "idle"]

\* All sequences over S of length 0..k.
SeqsUpTo(S, k) == UNION {[1..l -> S] : l \in 0..k}

RECURSIVE Pow2(_)
Pow2(k) == IF k = 0 THEN 1 ELSE 2 * Pow2(k - 1)

(***************************************************************************)
(* Substring search: string-search_baseline.c, string-search_optimized.c   *)
(***************************************************************************)

\* Bounds of the short inputs.
MaxTextLen == 5
MaxPatLen == 3

\* 'A', 'B'
Alphabet == {65, 66}

\* What a 16-byte load may find in the lanes that lie past the end of the
\* buffer it reads.
OobBytes == {0, 65}

\* A C string is modelled by its characters; byte k (0-based) of its buffer
\* is the character, or the terminator at k = strlen.
ByteAt(s, k) == IF k < Len(s) THEN s[k + 1] ELSE 0

\* Patterns at and around the 16-byte vector width (15 and 16 bytes take
\* the vector path, 17 the scalar path), and texts that hold them.
Rep(c, k) == [x \in 1..k |-> c]

LongPatterns ==
    UNION { { Rep(65, l), Rep(65, l - 1) \o <<66>>, <<66>> \o Rep(65, l - 1),
              [x \in 1..l |-> IF x % 2 = 1 THEN 65 ELSE 66] } :
            l \in {15, 16, 17} }

LongTexts ==
    { p \o t : p \in LongPatterns, t \in SeqsUpTo(Alphabet, 2) } \cup
    { t \o p : p \in LongPatterns, t \in SeqsUpTo(Alphabet, 2) }

SearchInputs ==
    (SeqsUpTo(Alphabet, MaxTextLen) \X SeqsUpTo(Alphabet, MaxPatLen)) \cup
    (LongTexts \X LongPatterns)

\* naive_search: the inner comparison loop, j == m at its end.
RECURSIVE NaiveInner(_, _, _, _)
NaiveInner(text, pattern, i, j) ==
    IF j < Len(pattern)
    THEN IF ByteAt(text, i + j) # ByteAt(pattern, j)
         THEN j
         ELSE NaiveInner(text, pattern, i, j + 1)
    ELSE j

RECURSIVE NaiveOuter(_, _, _, _)
NaiveOuter(text, pattern, i, count) ==
    IF i <= Len(text) - Len(pattern)
    THEN NaiveOuter(text, pattern, i + 1,
                    IF NaiveInner(text, pattern, i, 0) = Len(pattern)
                    THEN count + 1 ELSE count)
    ELSE count

naive_search(text, pattern) == NaiveOuter(text, pattern, 0, 0)

\* The bad character table with the fill loop running over the last
\* character as well.
RECURSIVE BadCharFillAll(_, _, _, _)
BadCharFillAll(tbl, pattern, m, i) ==
    IF i < m
    THEN BadCharFillAll([tbl EXCEPT ![ByteAt(pattern, i)] = m - 1 - i],
                        pattern, m, i + 1)
    ELSE tbl

bad_char_all(pattern, m) ==
    BadCharFillAll([c \in 0..255 |-> m], pattern, m, 0)

\* optimized_search: the bad character table.
RECURSIVE BadCharFill(_, _, _, _)
BadCharFill(tbl, pattern, m, i) ==
    IF i < m - 1
    THEN BadCharFill([tbl EXCEPT ![ByteAt(pattern, i)] = m - 1 - i],
                     pattern, m, i + 1)
    ELSE tbl

bad_char_table(pattern, m) ==
    BadCharFill([c \in 0..255 |-> m], pattern, m, 0)

\* _mm_loadu_si128 at byte `at` of the buffer of s: lanes 0..15, a lane past
\* the buffer's last byte (the terminator) holds g.
Load16(s, at, g) ==
    [l \in 0..15 |-> IF at + l <= Len(s) THEN ByteAt(s, at + l) ELSE g]

\* _mm_movemask_epi8(_mm_cmpeq_epi8(a, b)) as a 16-bit number.
RECURSIVE MoveMaskEq(_, _, _)
MoveMaskEq(a, b, l) ==
    IF l > 15 THEN 0
    ELSE (IF a[l] = b[l] THEN Pow2(l) ELSE 0) + MoveMaskEq(a, b, l + 1)

\* (mask_res & ((1 << m) - 1)) == ((1 << m) - 1)
SimdMatch(text_vec, pattern_vec, m) ==
    (MoveMaskEq(text_vec, pattern_vec, 0) % Pow2(m)) = Pow2(m) - 1

\* The scalar comparison of the long-pattern path: j after the while loop.
RECURSIVE BmhInner(_, _, _, _)
BmhInner(text, pattern, i, j) ==
    IF j >= 0 /\ ByteAt(pattern, j) = ByteAt(text, i + j)
    THEN BmhInner(text, pattern, i, j - 1)
    ELSE j

InitSearch ==
    /\ \E tp \in SearchInputs :
         search = [pc |-> "entry", text |-> tp[1], pattern |-> tp[2],
                   n |-> 0, m |-> 0, pattern_vec |-> <<>>,
                   i |-> 0, count |-> 0, patLoadHi |-> -1, textLoadHi |-> -1]
    /\ sort = Idle /\ prime = Idle /\ fib = Idle /\ asum = Idle /\ mat = Idle

\* Lines 11-14: the lengths and the early return.
SearchEarlyReturn ==
    /\ search.pc = "entry"
    /\ Len(search.pattern) = 0 \/ Len(search.text) < Len(search.pattern)
    /\ search' = [search EXCEPT !.pc = "done", !.n = Len(search.text),
                                !.m = Len(search.pattern), !.count = 0]
    /\ UNCHANGED <<sort, prime, fib, asum, mat>>

\* Lines 16-38, m <= 16: the 16-byte load of the pattern. (The table of
\* lines 17-23 is not kept in the state: the loops read it as
\* bad_char_table(pattern, m).)
SearchSetupSimd ==
    /\ search.pc = "entry"
    /\ ~(Len(search.pattern) = 0 \/ Len(search.text) < Len(search.pattern))
    /\ Len(search.pattern) <= 16
    /\ \E g \in OobBytes :
         search' = [search EXCEPT
                      !.pc = "simd", !.n = Len(search.text),
                      !.m = Len(search.pattern),
                      !.pattern_vec = Load16(search.pattern, 0, g),
                      !.patLoadHi = 15,
                      !.count = 0, !.i = 0]
    /\ UNCHANGED <<sort, prime, fib, asum, mat>>

\* Lines 16-26, m > 16.
SearchSetupBmh ==
    /\ search.pc = "entry"
    /\ ~(Len(search.pattern) = 0 \/ Len(search.text) < Len(search.pattern))
    /\ Len(search.pattern) > 16
    /\ search' = [search EXCEPT
                    !.pc = "bmh", !.n = Len(search.text),
                    !.m = Len(search.pattern),
                    !.count = 0, !.i = 0]
    /\ UNCHANGED <<sort, prime, fib, asum, mat>>

\* Lines 40-57: one iteration of the short-pattern loop.
SearchSimdStep ==
    /\ search.pc = "simd"
    /\ search.i <= search.n - search.m
    /\ \E g \in OobBytes :
         LET text_vec == Load16(search.text, search.i, g)
             bad_char == bad_char_table(search.pattern, search.m)
             last_char == ByteAt(search.text, search.i + search.m - 1)
         IN  IF SimdMatch(text_vec, search.pattern_vec, search.m)
             THEN search' = [search EXCEPT !.count = @ + 1, !.i = @ + 1,
                                           !.textLoadHi = search.i + 15]
             ELSE search' = [search EXCEPT
                               !.i = @ + bad_char[last_char],
                               !.textLoadHi = search.i + 15]
    /\ UNCHANGED <<sort, prime, fib, asum, mat>>

\* Lines 60-72: one iteration of the long-pattern loop.
SearchBmhStep ==
    /\ search.pc = "bmh"
    /\ search.i <= search.n - search.m
    /\ LET j == BmhInner(search.text, search.pattern, search.i, search.m - 1)
           bad_char == bad_char_table(search.pattern, search.m)
           last_char == ByteAt(search.text, search.i + search.m - 1)
       IN  IF j < 0
           THEN search' = [search EXCEPT !.count = @ + 1, !.i = @ + 1]
           ELSE search' = [search EXCEPT !.i = @ + bad_char[last_char]]
    /\ UNCHANGED <<sort, prime, fib, asum, mat>>

\* Line 75: either loop ends, the count is returned.
SearchReturn ==
    /\ search.pc \in {"simd", "bmh"}
    /\ ~(search.i <= search.n - search.m)
    /\ search' = [search EXCEPT !.pc = "done"]
    /\ UNCHANGED <<sort, prime, fib, asum, mat>>

NextSearch ==
    \/ SearchEarlyReturn
    \/ SearchSetupSimd
    \/ SearchSetupBmh
    \/ SearchSimdStep
    \/ SearchBmhStep
    \/ SearchReturn

SpecSearch == InitSearch /\ [][NextSearch]_vars /\ WF_vars(NextSearch)

\* The pattern occurs in the text at alignment k.
Occurs(text, pattern, k) ==
    /\ k >= 0
    /\ k + Len(pattern) <= Len(text)
    /\ \A j \in 1..Len(pattern) : text[k + j] = pattern[j]

Occurrences(text, pattern) ==
    {k \in 0..Len(text) : Occurs(text, pattern, k)}

\* C1: for any text/pattern pair (the empty pattern and a pattern longer
\* than the text included) optimized_search returns the match count that
\* naive_search returns.
C1_SameCountAsNaive ==
    search.pc = "done" =>
        search.count = naive_search(search.text, search.pattern)

\* The same with the empty pattern left out.
SameCountNonEmptyPattern ==
    (search.pc = "done" /\ Len(search.pattern) > 0) =>
        search.count = naive_search(search.text, search.pattern)

\* C9, in a state: every shift of the table is at least 1, the occurrences
\* left of the window are exactly the ones counted, and the returned count
\* is the number of occurrences (1 when the text is the pattern).
C9_CountedSoFar ==
    /\ search.pc \in {"simd", "bmh"} =>
         /\ LET bad_char == bad_char_table(search.pattern, search.m)
            IN  \A c \in 0..255 : bad_char[c] >= 1
         /\ search.count =
              Cardinality({k \in Occurrences(search.text, search.pattern) :
                             k < search.i})
    /\ (search.pc = "done" /\ Len(search.pattern) > 0) =>
         /\ search.count =
              Cardinality(Occurrences(search.text, search.pattern))
         /\ search.text = search.pattern => search.count = 1

\* C9, in a step of the scan at alignment i: a match is counted and the
\* window moves to i+1; a mismatch counts nothing and moves the window
\* forward by bad_char[text[i+m-1]] over alignments without an occurrence.
C9_StepKeepsOccurrences ==
    (search.pc \in {"simd", "bmh"} /\ search.i <= search.n - search.m) =>
        IF Occurs(search.text, search.pattern, search.i)
        THEN /\ search'.i = search.i + 1
             /\ search'.count = search.count + 1
        ELSE /\ search'.i = search.i +
                   bad_char_table(search.pattern, search.m)
                       [ByteAt(search.text, search.i + search.m - 1)]
             /\ search'.i > search.i
             /\ search'.count = search.count
             /\ \A k \in (search.i + 1)..(search'.i - 1) :
                    ~Occurs(search.text, search.pattern, k)

\* C9: for a non-empty pattern the scan of optimized_search skips no
\* alignment at which the pattern occurs, counts every occurrence exactly
\* once, and terminates.
C9_NoOccurrenceSkipped ==
    /\ []C9_CountedSoFar
    /\ [][C9_StepKeepsOccurrences]_search
    /\ <>(search.pc = "done")

\* C9's case: the scan has returned after counting two overlapping
\* occurrences and after a mismatch shift past the last window.
C9_Witness ==
    /\ search.pc = "done"
    /\ Len(search.pattern) >= 2
    /\ Occurs(search.text, search.pattern, 0)
    /\ Occurs(search.text, search.pattern, 1)
    /\ ~Occurs(search.text, search.pattern, 2)
    /\ Len(search.text) >= Len(search.pattern) + 2
    /\ search.count = 2

\* C10: in the short-pattern path every 16-byte load stays inside the
\* buffer it reads: bytes 0..m of the pattern, bytes 0..n of the text.
C10_LoadsInsideBuffers ==
    /\ search.pc # "idle" => search.patLoadHi <= Len(search.pattern)
    /\ search.pc # "idle" => search.textLoadHi <= Len(search.text)

(***************************************************************************)
(* Sort: bubble-sort_baseline.c, bubble-sort_optimized.c                   *)
(* Arrays are sequences: the code's arr[k] is arr[k + 1] here.             *)
(***************************************************************************)

\* The size of the value domain [0, MAX_VAL) of the counting sort; the code
\* has 32768, the model a domain small enough to enumerate.
MAX_VAL == 3

\* Longest array among the inputs that are enumerated in full.
MaxSortLen == 3

\* The values of an input: the domain, one value below it and one above it.
SortValues == (-1)..MAX_VAL

InDomain(a) == \A k \in 1..Len(a) : a[k] \in 0..(MAX_VAL - 1)

\* Inputs with a value that occurs 8 times or more (16 or more), for one
\* and for two rounds of the unrolled loop.
RunInputs ==
    { s \o Rep(v, r) \o t : s \in SeqsUpTo(0..(MAX_VAL - 1), 1),
                            t \in SeqsUpTo(0..(MAX_VAL - 1), 1),
                            v \in 0..(MAX_VAL - 1), r \in {8, 16} }

SortInputs == SeqsUpTo(SortValues, MaxSortLen) \cup RunInputs

\* bubble_sort: the inner loop from j on, with i fixed.
RECURSIVE BubbleInner(_, _, _, _)
BubbleInner(arr, n, i, j) ==
    IF j < n - i - 1
    THEN BubbleInner(IF arr[j + 1] > arr[j + 2]
                     THEN [arr EXCEPT ![j + 1] = arr[j + 2],
                                      ![j + 2] = arr[j + 1]]
                     ELSE arr,
                     n, i, j + 1)
    ELSE arr

\* The baseline's checksum loop from i on.
RECURSIVE BaselineChecksum(_, _, _, _)
BaselineChecksum(arr, n, i, checksum) ==
    IF i < n
    THEN BaselineChecksum(arr, n, i + 1, checksum + arr[i + 1] * (i + 1))
    ELSE checksum

\* An unrolled emit that stores seven of its eight elements.
Emit8Short(arr, idx, val) ==
    [k \in 1..Len(arr) |-> IF k \in (idx + 1)..(idx + 7) THEN val ELSE arr[k]]

\* optimized_sort: arr[idx] = val; ... arr[idx+7] = val;
Emit8(arr, idx, val) ==
    [k \in 1..Len(arr) |-> IF k \in (idx + 1)..(idx + 8) THEN val ELSE arr[k]]

\* The remainder branch of the optimized checksum: j from i to min(N, i+4).
RECURSIVE ChecksumTail(_, _, _, _, _)
ChecksumTail(arr, n, i, j, checksum) ==
    IF j < n /\ j < i + 4
    THEN ChecksumTail(arr, n, i, j + 1, checksum + arr[j + 1] * (j + 1))
    ELSE checksum

InitSort ==
    /\ \E a \in SortInputs :
         sort = [pc |-> "tally", input |-> a, arr |-> a, n |-> Len(a),
                 count |-> [v \in 0..(MAX_VAL - 1) |-> 0],
                 i |-> 0, idx |-> 0, val |-> 0, c |-> 0, oob |-> FALSE,
                 checksum |-> 0, sum1 |-> 0, sum2 |-> 0, sum3 |-> 0,
                 sum4 |-> 0,
                 b_pc |-> "entry", b_arr |-> a, b_i |-> 0,
                 b_checksum |-> 0]
    /\ search = Idle /\ prime = Idle /\ fib = Idle /\ asum = Idle /\ mat = Idle

\* Lines 16-18: count[arr[i]]++. A value outside [0, MAX_VAL) indexes past
\* the table: the increment lands in other memory, and the run goes on with
\* the table as it was or is stopped by the fault.
SortTally ==
    /\ sort.pc = "tally"
    /\ sort.i < sort.n
    /\ LET v == sort.arr[sort.i + 1]
       IN  IF v \in 0..(MAX_VAL - 1)
           THEN sort' = [sort EXCEPT !.count[v] = @ + 1, !.i = @ + 1]
           ELSE \/ sort' = [sort EXCEPT !.oob = TRUE, !.i = @ + 1]
                \/ sort' = [sort EXCEPT !.oob = TRUE, !.pc = "crashed"]
    /\ UNCHANGED <<search, prime, fib, asum, mat>>

\* Lines 21-22: the tally is over, the reconstruction starts at val = 0.
SortTallyDone ==
    /\ sort.pc = "tally"
    /\ ~(sort.i < sort.n)
    /\ sort' = [sort EXCEPT !.pc = "emit_val", !.idx = 0, !.val = 0]
    /\ UNCHANGED <<search, prime, fib, asum, mat>>

\* Lines 22-23: c = count[val].
SortLoadVal ==
    /\ sort.pc = "emit_val"
    /\ sort.val < MAX_VAL
    /\ sort' = [sort EXCEPT !.c = sort.count[sort.val], !.pc = "emit_run"]
    /\ UNCHANGED <<search, prime, fib, asum, mat>>

\* Lines 27-32: eight elements at a time.
SortEmit8 ==
    /\ sort.pc = "emit_run"
    /\ sort.c >= 8
    /\ sort' = [sort EXCEPT !.arr = Emit8(sort.arr, sort.idx, sort.val),
                            !.idx = @ + 8, !.c = @ - 8]
    /\ UNCHANGED <<search, prime, fib, asum, mat>>

\* Lines 33-36: the elements left, one at a time.
SortEmit1 ==
    /\ sort.pc = "emit_run"
    /\ ~(sort.c >= 8)
    /\ sort.c > 0
    /\ sort' = [sort EXCEPT !.arr[sort.idx + 1] = sort.val,
                            !.idx = @ + 1, !.c = @ - 1]
    /\ UNCHANGED <<search, prime, fib, asum, mat>>

\* Line 22: val++.
SortNextVal ==
    /\ sort.pc = "emit_run"
    /\ ~(sort.c >= 8)
    /\ ~(sort.c > 0)
    /\ sort' = [sort EXCEPT !.val = @ + 1, !.pc = "emit_val"]
    /\ UNCHANGED <<search, prime, fib, asum, mat>>

\* Lines 40-41 and 74-75: optimized_sort returns, main zeroes its sums.
SortReturn ==
    /\ sort.pc = "emit_val"
    /\ ~(sort.val < MAX_VAL)
    /\ sort' = [sort EXCEPT !.pc = "checksum", !.i = 0, !.checksum = 0,
                            !.sum1 = 0, !.sum2 = 0, !.sum3 = 0, !.sum4 = 0]
    /\ UNCHANGED <<search, prime, fib, asum, mat>>

\* Lines 77-83: a full block of four.
ChecksumUnrolled ==
    /\ sort.pc = "checksum"
    /\ sort.i < sort.n
    /\ sort.i + 3 < sort.n
    /\ LET base == sort.i + 1
       IN  sort' = [sort EXCEPT
                      !.sum1 = @ + sort.arr[sort.i + 1] * base,
                      !.sum2 = @ + sort.arr[sort.i + 2] * (base + 1),
                      !.sum3 = @ + sort.arr[sort.i + 3] * (base + 2),
                      !.sum4 = @ + sort.arr[sort.i + 4] * (base + 3),
                      !.i = @ + 4]
    /\ UNCHANGED <<search, prime, fib, asum, mat>>

\* Lines 84-89: the last, partial block is added to checksum.
ChecksumRemainder ==
    /\ sort.pc = "checksum"
    /\ sort.i < sort.n
    /\ ~(sort.i + 3 < sort.n)
    /\ sort' = [sort EXCEPT
                  !.checksum = ChecksumTail(sort.arr, sort.n, sort.i, sort.i, @),
                  !.i = @ + 4]
    /\ UNCHANGED <<search, prime, fib, asum, mat>>

\* Lines 91-93: checksum = sum1 + sum2 + sum3 + sum4, printed.
ChecksumPrint ==
    /\ sort.pc = "checksum"
    /\ ~(sort.i < sort.n)
    /\ sort' = [sort EXCEPT
                  !.checksum = sort.sum1 + sort.sum2 + sort.sum3 + sort.sum4,
                  !.pc = "printed"]
    /\ UNCHANGED <<search, prime, fib, asum, mat>>

\* The baseline program on the same input: one round of the outer loop of
\* bubble_sort(arr, N).
BaselineSortPass ==
    /\ sort.b_pc = "entry"
    /\ sort.b_i < sort.n - 1
    /\ sort' = [sort EXCEPT !.b_arr = BubbleInner(@, sort.n, sort.b_i, 0),
                            !.b_i = @ + 1]
    /\ UNCHANGED <<search, prime, fib, asum, mat>>

\* bubble_sort returns.
BaselineSortReturn ==
    /\ sort.b_pc = "entry"
    /\ ~(sort.b_i < sort.n - 1)
    /\ sort' = [sort EXCEPT !.b_pc = "sorted"]
    /\ UNCHANGED <<search, prime, fib, asum, mat>>

\* The baseline's checksum loop and printf.
BaselinePrint ==
    /\ sort.b_pc = "sorted"
    /\ sort' = [sort EXCEPT
                  !.b_checksum = BaselineChecksum(sort.b_arr, sort.n, 0, 0),
                  !.b_pc = "printed"]
    /\ UNCHANGED <<search, prime, fib, asum, mat>>

NextSort ==
    \/ SortTally
    \/ SortTallyDone
    \/ SortLoadVal
    \/ SortEmit8
    \/ SortEmit1
    \/ SortNextVal
    \/ SortReturn
    \/ ChecksumUnrolled
    \/ ChecksumRemainder
    \/ ChecksumPrint
    \/ BaselineSortPass
    \/ BaselineSortReturn
    \/ BaselinePrint

SpecSort == InitSort /\ [][NextSort]_vars

NonDecreasing(a) == \A k \in 1..(Len(a) - 1) : a[k] <= a[k + 1]

Occurrence(a, v) == Cardinality({k \in 1..Len(a) : a[k] = v})

PermutationOf(a, b) ==
    /\ Len(a) = Len(b)
    /\ \A v \in SortValues : Occurrence(a, v) = Occurrence(b, v)

\* C2: on an input whose values all lie in [0, MAX_VAL), of any length,
\* bubble_sort and optimized_sort each leave a non-decreasing permutation of
\* the input, and the two outputs are equal element for element.
C2_BothSortAndAgree ==
    /\ (InDomain(sort.input) /\ sort.pc \in {"checksum", "printed"}) =>
         /\ NonDecreasing(sort.arr)
         /\ PermutationOf(sort.arr, sort.input)
    /\ (InDomain(sort.input) /\ sort.b_pc \in {"sorted", "printed"}) =>
         /\ NonDecreasing(sort.b_arr)
         /\ PermutationOf(sort.b_arr, sort.input)
    /\ (/\ InDomain(sort.input)
        /\ sort.pc \in {"checksum", "printed"}
        /\ sort.b_pc \in {"sorted", "printed"}) => sort.arr = sort.b_arr

\* C2's case: both sorts have returned on an unsorted in-domain input with
\* a value that went through the unrolled emit and the one-by-one emit.
C2_Witness ==
    /\ InDomain(sort.input)
    /\ ~NonDecreasing(sort.input)
    /\ \E v \in 0..(MAX_VAL - 1) : Occurrence(sort.input, v) > 8
    /\ sort.pc = "printed"
    /\ sort.b_pc = "printed"

\* C3: on an input with a value outside [0, MAX_VAL), optimized_sort never
\* reads or writes the frequency table at an index outside the table.
C3_TableIndexInRange ==
    sort.pc # "idle" => ~sort.oob

\* C8: the unrolled checksum of the optimized program is the sum of
\* arr[i]*(i+1) over all i, the value the baseline prints, for any N.
C8_ChecksumAsBaseline ==
    (/\ InDomain(sort.input)
     /\ sort.pc = "printed"
     /\ sort.b_pc = "printed") => sort.checksum = sort.b_checksum

\* The same for N a multiple of 4.
ChecksumAsBaselineMultipleOf4 ==
    (/\ InDomain(sort.input)
     /\ sort.n % 4 = 0
     /\ sort.pc = "printed"
     /\ sort.b_pc = "printed") => sort.checksum = sort.b_checksum

(***************************************************************************)
(* Prime counting: prime-sieve_baseline.c, prime-sieve_optimized.c         *)
(***************************************************************************)

\* Largest MAX of the driver loops and largest n handed to the two tests;
\* the program's MAX is 100000.
MaxPrimeBound == 50

\* is_prime: the divisor loop from i on.
RECURSIVE IsPrimeLoop(_, _)
IsPrimeLoop(n, i) ==
    IF i < n
    THEN IF n % i = 0 THEN FALSE ELSE IsPrimeLoop(n, i + 1)
    ELSE TRUE

is_prime(n) == IF n < 2 THEN FALSE ELSE IsPrimeLoop(n, 2)

\* (int)sqrt(n), exact for the n of the model.
ISqrt(n) == CHOOSE r \in 0..n : r * r <= n /\ (r + 1) * (r + 1) > n

\* An odd-divisor loop that stops one short of the limit.
RECURSIVE IsPrimeOptLoopStrict(_, _, _)
IsPrimeOptLoopStrict(n, limit, i) ==
    IF i < limit
    THEN IF n % i = 0 THEN FALSE ELSE IsPrimeOptLoopStrict(n, limit, i + 2)
    ELSE TRUE

is_prime_optimized_strict(n) ==
    IF n < 2 THEN FALSE
    ELSE IF n = 2 THEN TRUE
    ELSE IF n % 2 = 0 THEN FALSE
    ELSE IsPrimeOptLoopStrict(n, ISqrt(n), 3)

\* is_prime_optimized: the odd-divisor loop from i on.
RECURSIVE IsPrimeOptLoop(_, _, _)
IsPrimeOptLoop(n, limit, i) ==
    IF i <= limit
    THEN IF n % i = 0 THEN FALSE ELSE IsPrimeOptLoop(n, limit, i + 2)
    ELSE TRUE

is_prime_optimized(n) ==
    IF n < 2 THEN FALSE
    ELSE IF n = 2 THEN TRUE
    ELSE IF n % 2 = 0 THEN FALSE
    ELSE IsPrimeOptLoop(n, ISqrt(n), 3)

\* The baseline's main loop from i on: <<count, sum>>.
RECURSIVE BaselinePrimeLoop(_, _, _, _)
BaselinePrimeLoop(max, i, count, sum) ==
    IF i < max
    THEN IF is_prime(i)
         THEN BaselinePrimeLoop(max, i + 1, count + 1, sum + i)
         ELSE BaselinePrimeLoop(max, i + 1, count, sum)
    ELSE <<count, sum>>

\* MAX is a macro of both programs; the model runs them for every MAX from
\* 3 (the optimized driver starts from the prime 2 already counted).
InitPrime ==
    /\ \E max \in 3..MaxPrimeBound :
         prime = [pc |-> "start", MAX |-> max, i |-> 0, count |-> 0,
                  sum |-> 0, tested |-> <<>>,
                  b_pc |-> "start", b_count |-> 0, b_sum |-> 0,
                  probe |-> [called |-> FALSE, n |-> 0,
                             baseline |-> FALSE, optimized |-> FALSE]]
    /\ search = Idle /\ sort = Idle /\ fib = Idle /\ asum = Idle /\ mat = Idle

\* Optimized main, lines 20-28: count = 1, sum = 2, i = 3.
PrimeSeed ==
    /\ prime.pc = "start"
    /\ prime' = [prime EXCEPT !.pc = "loop", !.count = 1, !.sum = 2, !.i = 3]
    /\ UNCHANGED <<search, sort, fib, asum, mat>>

\* Optimized main, lines 28-39: one iteration, with both increments of i.
PrimeIter ==
    /\ prime.pc = "loop"
    /\ prime.i < prime.MAX
    /\ LET i == prime.i
           next == i + 2
           p1 == is_prime_optimized(i)
           call2 == next < prime.MAX
           p2 == call2 /\ is_prime_optimized(next)
       IN  prime' = [prime EXCEPT
                       !.count = @ + (IF p1 THEN 1 ELSE 0)
                                   + (IF p2 THEN 1 ELSE 0),
                       !.sum = @ + (IF p1 THEN i ELSE 0)
                                 + (IF p2 THEN next ELSE 0),
                       !.tested = IF call2 THEN @ \o <<i, next>>
                                           ELSE @ \o <<i>>,
                       !.i = i + 2 + 2]
    /\ UNCHANGED <<search, sort, fib, asum, mat>>

\* Optimized main, line 41.
PrimePrint ==
    /\ prime.pc = "loop"
    /\ ~(prime.i < prime.MAX)
    /\ prime' = [prime EXCEPT !.pc = "printed"]
    /\ UNCHANGED <<search, sort, fib, asum, mat>>

\* Baseline main, lines 14-25.
BaselinePrimeMain ==
    /\ prime.b_pc = "start"
    /\ LET r == BaselinePrimeLoop(prime.MAX, 2, 0, 0)
       IN  prime' = [prime EXCEPT !.b_pc = "printed", !.b_count = r[1],
                                  !.b_sum = r[2]]
    /\ UNCHANGED <<search, sort, fib, asum, mat>>

\* One call of each test on the same n.
PrimeProbe ==
    /\ ~prime.probe.called
    /\ \E n \in 0..MaxPrimeBound :
         prime' = [prime EXCEPT
                     !.probe = [called |-> TRUE, n |-> n,
                                baseline |-> is_prime(n),
                                optimized |-> is_prime_optimized(n)]]
    /\ UNCHANGED <<search, sort, fib, asum, mat>>

NextPrime ==
    \/ PrimeSeed
    \/ PrimeIter
    \/ PrimePrint
    \/ BaselinePrimeMain
    \/ PrimeProbe

SpecPrime == InitPrime /\ [][NextPrime]_vars

\* The odd numbers of [3, max), ascending.
RECURSIVE OddsFrom(_, _)
OddsFrom(k, max) == IF k < max THEN <<k>> \o OddsFrom(k + 2, max) ELSE <<>>

\* n has no divisor strictly between 1 and n.
NoProperDivisor(n) == \A q \in 2..(n - 1) : n % q # 0

\* C4: is_prime and is_prime_optimized agree on every n (0 and 1 not prime,
\* 2 prime), the optimized driver tests every odd number of [3, MAX) exactly
\* once, and it prints the (count, sum) of the baseline.
C4_SamePrimesSameTotals ==
    /\ (prime.pc # "idle" /\ prime.probe.called) =>
         /\ prime.probe.baseline = prime.probe.optimized
         /\ prime.probe.optimized =
              (prime.probe.n >= 2 /\ NoProperDivisor(prime.probe.n))
         /\ prime.probe.n \in {0, 1} => ~prime.probe.optimized
         /\ prime.probe.n = 2 => prime.probe.optimized
    /\ prime.pc = "printed" => prime.tested = OddsFrom(3, prime.MAX)
    /\ (prime.pc = "printed" /\ prime.b_pc = "printed") =>
         /\ prime.count = prime.b_count
         /\ prime.sum = prime.b_sum

\* C4's case: both drivers have printed for a MAX that cuts the optimized
\* loop's last iteration in two, and the tests were compared on the square
\* of an odd prime.
C4_Witness ==
    /\ prime.pc = "printed"
    /\ prime.b_pc = "printed"
    /\ prime.MAX = 28
    /\ Len(prime.tested) = 13
    /\ prime.count = 9
    /\ prime.sum = 100
    /\ prime.probe.called
    /\ prime.probe.n = 25
    /\ ~prime.probe.optimized

(***************************************************************************)
(* Fibonacci: fibonacci_baseline.c, fibonacci_optimized.c                  *)
(***************************************************************************)

\* Number of iterations of main's loop that the model runs; the programs
\* run 40.
MaxFibCalls == 12

\* Baseline fibonacci.
RECURSIVE fibonacci_recursive(_)
fibonacci_recursive(n) ==
    IF n <= 1 THEN n
    ELSE fibonacci_recursive(n - 1) + fibonacci_recursive(n - 2)

\* A loop test that stops one iteration early.
FibLoopTestStrict(k, n) == k < n

\* Optimized fibonacci, line 6: i <= n.
FibLoopTest(k, n) == k <= n

InitFib ==
    /\ fib = [pc |-> "main", i |-> 0, sum |-> 0, outs |-> <<>>,
              n |-> 0, a |-> 0, b |-> 0, k |-> 0,
              b_i |-> 0, b_sum |-> 0, b_outs |-> <<>>]
    /\ search = Idle /\ sort = Idle /\ prime = Idle /\ asum = Idle
    /\ mat = Idle

\* Optimized: main calls fibonacci(i); n <= 1 returns n at once.
FibCallSmall ==
    /\ fib.pc = "main"
    /\ fib.i < MaxFibCalls
    /\ fib.i <= 1
    /\ fib' = [fib EXCEPT !.sum = @ + fib.i, !.outs = Append(@, fib.i),
                          !.i = @ + 1, !.n = fib.i]
    /\ UNCHANGED <<search, sort, prime, asum, mat>>

\* Optimized: main calls fibonacci(i), lines 4-6: a = 0, b = 1, i = 2.
FibCall ==
    /\ fib.pc = "main"
    /\ fib.i < MaxFibCalls
    /\ ~(fib.i <= 1)
    /\ fib' = [fib EXCEPT !.pc = "for", !.n = fib.i, !.a = 0, !.b = 1,
                          !.k = 2]
    /\ UNCHANGED <<search, sort, prime, asum, mat>>

\* Optimized fibonacci, lines 6-10 (k is the function's own i).
FibStep ==
    /\ fib.pc = "for"
    /\ FibLoopTest(fib.k, fib.n)
    /\ LET c == fib.a + fib.b
       IN  fib' = [fib EXCEPT !.a = fib.b, !.b = c, !.k = @ + 1]
    /\ UNCHANGED <<search, sort, prime, asum, mat>>

\* Optimized fibonacci, line 11, and main's sum += ...; i++.
FibReturn ==
    /\ fib.pc = "for"
    /\ ~FibLoopTest(fib.k, fib.n)
    /\ fib' = [fib EXCEPT !.pc = "main", !.sum = @ + fib.b,
                          !.outs = Append(@, fib.b), !.i = @ + 1]
    /\ UNCHANGED <<search, sort, prime, asum, mat>>

\* Baseline: one iteration of main's loop.
BaselineFibIter ==
    /\ fib.pc # "idle"
    /\ fib.b_i < MaxFibCalls
    /\ LET r == fibonacci_recursive(fib.b_i)
       IN  fib' = [fib EXCEPT !.b_sum = @ + r, !.b_outs = Append(@, r),
                              !.b_i = @ + 1]
    /\ UNCHANGED <<search, sort, prime, asum, mat>>

NextFib ==
    \/ FibCallSmall
    \/ FibCall
    \/ FibStep
    \/ FibReturn
    \/ BaselineFibIter

SpecFib == InitFib /\ [][NextFib]_vars

FibExpected == <<0, 1, 1, 2, 3, 5, 8, 13, 21, 34, 55>>

\* outs holds the expected outputs for the n <= 10 it has reached.
FibOutputsAsExpected(outs) ==
    \A x \in 1..Len(outs) : x <= 11 => outs[x] = FibExpected[x]

\* C5 as stated: both programs output 0,1,1,2,3,5,8,13,21,34,55 for
\* n = 0..10, and the running sum over i = 0..9 is 143.
C5_SumOfFirstTenIs143 ==
    fib.pc # "idle" =>
        /\ FibOutputsAsExpected(fib.outs)
        /\ FibOutputsAsExpected(fib.b_outs)
        /\ (fib.pc = "main" /\ fib.i = 10) => fib.sum = 143
        /\ fib.b_i = 10 => fib.b_sum = 143

\* C5 as amended: both programs output 0,1,1,2,3,5,8,13,21,34,55 for
\* n = 0..10; the running sum over i = 0..9 is 88, and over i = 0..10 it
\* is 143.
C5_SumOfFirstTenIs88 ==
    fib.pc # "idle" =>
        /\ FibOutputsAsExpected(fib.outs)
        /\ FibOutputsAsExpected(fib.b_outs)
        /\ (fib.pc = "main" /\ fib.i = 10) => fib.sum = 88
        /\ fib.b_i = 10 => fib.b_sum = 88
        /\ (fib.pc = "main" /\ fib.i = 11) => fib.sum = 143
        /\ fib.b_i = 11 => fib.b_sum = 143

\* C5's case: both programs have returned fibonacci(0) .. fibonacci(10).
C5_Witness ==
    /\ fib.pc = "main"
    /\ fib.i = 11
    /\ fib.b_i = 11
    /\ Len(fib.outs) = 11
    /\ Len(fib.b_outs) = 11

(***************************************************************************)
(* Array sum: array-sum_baseline.c, array-sum_optimized.c                  *)
(* The optimized loop is an OpenMP worksharing loop: schedule(static)      *)
(* gives thread t one contiguous block, reduction(+:sum) gives it a        *)
(* private sum, and each thread adds its private sum to the shared one     *)
(* when its block is done; OpenMP leaves the order of these additions      *)
(* unspecified. All threads then meet at the loop's barrier.               *)
(***************************************************************************)

\* Longest array and largest team of threads.
MaxSumLen == 3
MaxWorkers == 3

\* The values an array element is drawn from.
SumValues == {1, 2}

\* The baseline's loop from i on.
RECURSIVE BaselineArraySum(_, _, _, _)
BaselineArraySum(arr, n, i, sum) ==
    IF i < n THEN BaselineArraySum(arr, n, i + 1, sum + arr[i + 1]) ELSE sum

\* schedule(static) without a chunk size: the block [s0, e0) of thread t in
\* a team of p threads over n iterations.
StaticBlock(n, p, t) ==
    LET q0 == n \div p
        tt0 == n % p
        q == IF t < tt0 THEN q0 + 1 ELSE q0
        tt == IF t < tt0 THEN 0 ELSE tt0
    IN  [s0 |-> q * t + tt, e0 |-> q * t + tt + q]

InitSum ==
    /\ \E n \in 0..MaxSumLen, p \in 1..MaxWorkers :
         \E a \in [1..n -> SumValues] :
            asum = [pc |-> "entry", arr |-> a, n |-> n, P |-> p,
                    sum |-> 0, w |-> <<>>, added |-> [x \in 0..(n - 1) |-> 0],
                    order |-> <<>>, early |-> FALSE]
    /\ search = Idle /\ sort = Idle /\ prime = Idle /\ fib = Idle
    /\ mat = Idle

\* Lines 8-10: sum = 0.0, the team is forked, each thread gets its block
\* and a private sum of 0.
SumFork ==
    /\ asum.pc = "entry"
    /\ asum' = [asum EXCEPT
                  !.pc = "parallel", !.sum = 0,
                  !.w = [t \in 0..(asum.P - 1) |->
                           LET blk == StaticBlock(asum.n, asum.P, t)
                           IN  [pc |-> "loop", i |-> blk.s0, e0 |-> blk.e0,
                                s0 |-> blk.s0, sum |-> 0]]]
    /\ UNCHANGED <<search, sort, prime, fib, mat>>

\* Line 11 in thread t: sum += arr[i] on the private sum.
SumAdd(t) ==
    /\ asum.pc = "parallel"
    /\ t < asum.P
    /\ asum.w[t].pc = "loop"
    /\ asum.w[t].i < asum.w[t].e0
    /\ asum' = [asum EXCEPT
                  !.w[t].sum = @ + asum.arr[asum.w[t].i + 1],
                  !.w[t].i = @ + 1,
                  !.added[asum.w[t].i] = @ + 1]
    /\ UNCHANGED <<search, sort, prime, fib, mat>>

\* Thread t has run its block.
SumBlockDone(t) ==
    /\ asum.pc = "parallel"
    /\ t < asum.P
    /\ asum.w[t].pc = "loop"
    /\ ~(asum.w[t].i < asum.w[t].e0)
    /\ asum' = [asum EXCEPT !.w[t].pc = "reduce"]
    /\ UNCHANGED <<search, sort, prime, fib, mat>>

\* The reduction in thread t: its private sum is added, atomically, to the
\* shared sum; then the thread waits at the barrier.
SumCombine(t) ==
    /\ asum.pc = "parallel"
    /\ t < asum.P
    /\ asum.w[t].pc = "reduce"
    /\ asum' = [asum EXCEPT
                  !.sum = @ + asum.w[t].sum,
                  !.order = Append(@, t),
                  !.early = @ \/ (\E u \in 0..(asum.P - 1) :
                                     asum.w[u].pc = "loop"),
                  !.w[t].pc = "barrier"]
    /\ UNCHANGED <<search, sort, prime, fib, mat>>

\* Line 13: every thread is at the barrier, array_sum returns sum.
SumReturn ==
    /\ asum.pc = "parallel"
    /\ \A t \in 0..(asum.P - 1) : asum.w[t].pc = "barrier"
    /\ asum' = [asum EXCEPT !.pc = "returned"]
    /\ UNCHANGED <<search, sort, prime, fib, mat>>

NextSum ==
    \/ SumFork
    \/ \E t \in 0..(MaxWorkers - 1) : SumAdd(t)
    \/ \E t \in 0..(MaxWorkers - 1) : SumBlockDone(t)
    \/ \E t \in 0..(MaxWorkers - 1) : SumCombine(t)
    \/ SumReturn

SpecSum == InitSum /\ [][NextSum]_vars

\* Every index is added at most once, by the thread whose block holds it,
\* and exactly once when the function returns; the blocks are contiguous
\* and disjoint; the result is the exact sum (0 for N = 0).
SumPartitionExact ==
    asum.pc \in {"parallel", "returned"} =>
        /\ \A x \in 0..(asum.n - 1) :
             /\ asum.added[x] <= 1
             /\ Cardinality({t \in 0..(asum.P - 1) :
                   asum.w[t].s0 <= x /\ x < asum.w[t].e0}) = 1
             /\ asum.added[x] = 1 <=>
                   \E t \in 0..(asum.P - 1) :
                      asum.w[t].s0 <= x /\ x < asum.w[t].i
        /\ asum.pc = "returned" =>
             /\ \A x \in 0..(asum.n - 1) : asum.added[x] = 1
             /\ asum.sum = BaselineArraySum(asum.arr, asum.n, 0, 0)
             /\ asum.n = 0 => asum.sum = 0

\* C6: in every interleaving each index is added once into the private sum
\* of the one worker whose block holds it, the private sums are combined
\* only after every worker has finished its block, and they are combined in
\* worker-index order; for N = 0 the result is 0.
C6_CombinedAfterAllInWorkerOrder ==
    asum.pc \in {"parallel", "returned"} =>
        /\ SumPartitionExact
        /\ ~asum.early
        /\ \A x, y \in 1..Len(asum.order) :
             x < y => asum.order[x] < asum.order[y]

(***************************************************************************)
(* Matrix multiply: matrix-multiply_baseline.c,                            *)
(* matrix-multiply_optimized.c. Matrices are row-major arrays indexed from *)
(* 0, as in the code; the entries are integers (exact arithmetic).         *)
(***************************************************************************)

\* Largest matrix size; the programs have N = 256.
MaxMatN == 5

\* What the memory of C may hold before matrix_multiply writes it.
MatGarbage == {0, 7}

Identity(n) == [x \in 0..(n * n - 1) |-> IF x \div n = x % n THEN 1 ELSE 0]

\* main's fill of A and B, in hundredths.
FillA(n) == [x \in 0..(n * n - 1) |-> x % 100]
FillB(n) == [x \in 0..(n * n - 1) |-> (x * 7) % 100]

\* The pairs <<A, B>> of size n: every 0/1 pair up to size 2, and pairs of
\* the identity, main's fills and an all-ones matrix above.
MatInputs(n) ==
    IF n <= 2
    THEN [0..(n * n - 1) -> {0, 1}] \X [0..(n * n - 1) -> {0, 1}]
    ELSE {Identity(n), FillA(n), [x \in 0..(n * n - 1) |-> 1]} \X
         {Identity(n), FillB(n), FillA(n)}

\* Baseline: the k loop of one cell, from k on.
RECURSIVE BaselineCell(_, _, _, _, _, _, _)
BaselineCell(A, B, n, i, j, k, sum) ==
    IF k < n
    THEN BaselineCell(A, B, n, i, j, k + 1, sum + A[i * n + k] * B[k * n + j])
    ELSE sum

\* Baseline matrix_multiply.
baseline_matrix_multiply(A, B, n) ==
    [x \in 0..(n * n - 1) |-> BaselineCell(A, B, n, x \div n, x % n, 0, 0)]

\* A vector step that covers two columns.
VecLanes2(j) == {j, j + 1}

\* The columns of one _mm256 load / store at &c_ptr[j].
VecLanes(j) == {j, j + 1, j + 2, j + 3}

\* c_ptr[col] += a_val * b_ptr[col] for the columns cols of row i, at k;
\* terms counts, per cell and k, the products added.
AddProducts(m, cols) ==
    [m EXCEPT
       !.C = [x \in 0..(m.N * m.N - 1) |->
                IF x \div m.N = m.i /\ (x % m.N) \in cols
                THEN m.C[x] + m.A[m.i * m.N + m.k] * m.B[m.k * m.N + (x % m.N)]
                ELSE m.C[x]],
       !.terms = [x \in 0..(m.N * m.N - 1) |->
                    IF x \div m.N = m.i /\ (x % m.N) \in cols
                    THEN [m.terms[x] EXCEPT ![m.k] = @ + 1]
                    ELSE m.terms[x]]]

InitMat ==
    /\ \E n \in 1..MaxMatN :
         \E ab \in MatInputs(n), g \in MatGarbage :
            mat = [pc |-> "entry", N |-> n, A |-> ab[1], B |-> ab[2],
                   C |-> [x \in 0..(n * n - 1) |-> g],
                   i |-> 0, k |-> 0, j |-> 0,
                   terms |-> [x \in 0..(n * n - 1) |->
                                [kk \in 0..(n - 1) |-> 0]],
                   b_pc |-> "entry", b_C |-> <<>>]
    /\ search = Idle /\ sort = Idle /\ prime = Idle /\ fib = Idle
    /\ asum = Idle

\* Lines 8-11: C is zeroed; then i = 0, k = 0, j = 0.
MatZero ==
    /\ mat.pc = "entry"
    /\ mat' = [mat EXCEPT !.C = [x \in 0..(mat.N * mat.N - 1) |-> 0],
                          !.pc = "row", !.i = 0, !.k = 0, !.j = 0]
    /\ UNCHANGED <<search, sort, prime, fib, asum>>

\* Lines 27-34: one vector step.
MatVecStep ==
    /\ mat.pc = "row"
    /\ mat.j <= mat.N - 4
    /\ mat' = [AddProducts(mat, VecLanes(mat.j)) EXCEPT !.j = @ + 4]
    /\ UNCHANGED <<search, sort, prime, fib, asum>>

\* Lines 37-39: one step of the remainder loop.
MatScalarStep ==
    /\ mat.pc = "row"
    /\ ~(mat.j <= mat.N - 4)
    /\ mat.j < mat.N
    /\ mat' = [AddProducts(mat, {mat.j}) EXCEPT !.j = @ + 1]
    /\ UNCHANGED <<search, sort, prime, fib, asum>>

\* Line 20: k++.
MatNextK ==
    /\ mat.pc = "row"
    /\ ~(mat.j <= mat.N - 4)
    /\ ~(mat.j < mat.N)
    /\ mat.k + 1 < mat.N
    /\ mat' = [mat EXCEPT !.k = @ + 1, !.j = 0]
    /\ UNCHANGED <<search, sort, prime, fib, asum>>

\* Line 19: i++, k = 0.
MatNextI ==
    /\ mat.pc = "row"
    /\ ~(mat.j <= mat.N - 4)
    /\ ~(mat.j < mat.N)
    /\ ~(mat.k + 1 < mat.N)
    /\ mat.i + 1 < mat.N
    /\ mat' = [mat EXCEPT !.i = @ + 1, !.k = 0, !.j = 0]
    /\ UNCHANGED <<search, sort, prime, fib, asum>>

\* Line 42: matrix_multiply returns.
MatReturn ==
    /\ mat.pc = "row"
    /\ ~(mat.j <= mat.N - 4)
    /\ ~(mat.j < mat.N)
    /\ ~(mat.k + 1 < mat.N)
    /\ ~(mat.i + 1 < mat.N)
    /\ mat' = [mat EXCEPT !.pc = "done"]
    /\ UNCHANGED <<search, sort, prime, fib, asum>>

\* The baseline program on the same A and B.
BaselineMultiply ==
    /\ mat.b_pc = "entry"
    /\ mat' = [mat EXCEPT
                 !.b_C = baseline_matrix_multiply(mat.A, mat.B, mat.N),
                 !.b_pc = "done"]
    /\ UNCHANGED <<search, sort, prime, fib, asum>>

NextMat ==
    \/ MatZero
    \/ MatVecStep
    \/ MatScalarStep
    \/ MatNextK
    \/ MatNextI
    \/ MatReturn
    \/ BaselineMultiply

SpecMat == InitMat /\ [][NextMat]_vars

\* C7: for every N >= 1 and all A, B the optimized matrix_multiply adds to
\* each cell C[i][j] each product A[i][k]*B[k][j], k = 0..N-1, exactly
\* once, so that C is the baseline's triple product, and C = B when A is
\* the identity.
C7_EachProductOnce ==
    /\ mat.pc = "done" =>
         /\ \A x \in 0..(mat.N * mat.N - 1) :
              \A k \in 0..(mat.N - 1) : mat.terms[x][k] = 1
         /\ mat.A = Identity(mat.N) => mat.C = mat.B
    /\ (mat.pc = "done" /\ mat.b_pc = "done") => mat.C = mat.b_C

\* C7's case: both programs are done on main's fill at a size with vector
\* steps and remainder steps, over memory that was not zero before.
C7_Witness ==
    /\ mat.pc = "done"
    /\ mat.b_pc = "done"
    /\ mat.N = 5
    /\ mat.A = FillA(5)
    /\ mat.B = FillB(5)
    /\ mat.C[24] # 0
    /\ mat.C # mat.B

=============================================================================
